---- MODULE Spec2Model ----
(***************************************************************************)
(* Model of the prediction / validation / weight-tuning feedback loop of   *)
(* sportspickmind-app: the D1 store (games, ai_predictions_enhanced,       *)
(* prediction_accuracy, system_logs), handleAdvancedPredictions' INSERT,   *)
(* runPredictionValidation and runWeightTuning.                            *)
(*                                                                         *)
(* Conventions.  A nullable column holds a set with at most one element:   *)
(* NULL is {} and the value v is {v}.  Times are whole days.  Percentages  *)
(* printed by toFixed(2) are integers in hundredths of a percent, weights  *)
(* are integers in thousandths; divisions are carried out exactly.         *)
(***************************************************************************)
EXTENDS Integers, Sequences, FiniteSets

VARIABLES
    games,      \* games table: game id -> [status, home_score, away_score]
    preds,      \* ai_predictions_enhanced: sequence of rows, id = index
    accuracy,   \* prediction_accuracy: sequence of rows, in insertion order
    logs,       \* system_logs: sequence of rows
    weights,    \* the Weight Set the prediction engine uses (this.weights)
    now,        \* the store's clock, datetime('now'), in days
    runs,       \* runner -> the state of its runPredictionValidation call
    last,       \* outcome of the most recent completed operation
    prev,       \* kind of the operation completed before `last`
    hist        \* counts of invocations started, store failures and abandonments

vars == <<games, preds, accuracy, logs, weights, now, runs, last, prev, hist>>

----------------------------------------------------------------------------
(* Bounds of the model *)

MaxPreds == 2        \* predictions stored in the interleaved specification
MaxGames == 1        \* games in the store
MaxStarts == 2       \* validator calls started in the interleaved specification
MaxFaults == 1       \* store calls that throw, and invocations abandoned
MaxSeqPreds == 2     \* predictions stored in the sequential specification
MaxSeqRows == 4      \* prediction_accuracy rows in the sequential specification
MaxSeqLogs == 3      \* system_logs rows in the sequential specification
MaxPerClass == 2     \* requests of one kind behind the tuner's input stores
TuneBatch == 5       \* games in each such request
MaxTuneLogs == 3     \* system_logs rows in the tuner's specification

(* Program constants *)

ValidationWindowDays == 7     \* datetime('now', '-7 days')
ValidationBatchLimit == 100   \* LIMIT 100
TuningWindowDays == 30        \* datetime('now', '-30 days')
MinimumRequired == 20         \* predictions.results.length < 20

----------------------------------------------------------------------------
(* Values *)

NULL == {}
Val(v) == {v}
IsNull(x) == x = {}
Get(x) == CHOOSE v \in x : TRUE

\* JavaScript ToNumber of a column value: null converts to 0
ToNumber(x) == IF IsNull(x) THEN 0 ELSE Get(x)

Abs(n) == IF n < 0 THEN -n ELSE n
Min(a, b) == IF a < b THEN a ELSE b
Max(a, b) == IF a > b THEN a ELSE b

TerminalStatuses == {"final", "completed"}

Factors == {"team_form", "player_stats", "injuries", "travel_fatigue",
            "head_to_head", "home_advantage", "rest_differential"}

----------------------------------------------------------------------------
(* The store's rows *)

\* features, as JSON.stringify(prediction.features) stores it and the tuner reads
\* it: for each tuned factor, whether its key(s) are absent ("absent") or present
\* with a zero ("zero") or a non-zero ("nonzero") home/away differential.
FullSnapshot == [f \in Factors |-> "nonzero"]

\* The row handleAdvancedPredictions binds for one game of the request.
\* game is the enriched game [id, homeTeamId, awayTeamId]; out is what the
\* engine returned for it [winner, confidence_score, predicted_home_score,
\* predicted_away_score, predicted_spread, top_factor_1, features, ai_model].
PredictionRow(game, out, t) ==
    [ game_id                  |-> game.id,
      home_team_id             |-> game.homeTeamId,
      away_team_id             |-> game.awayTeamId,
      predicted_winner_team_id |-> IF out.winner = "home" THEN game.homeTeamId
                                                          ELSE game.awayTeamId,
      confidence_score         |-> out.confidence_score,
      predicted_home_score     |-> out.predicted_home_score,
      predicted_away_score     |-> out.predicted_away_score,
      predicted_spread         |-> out.predicted_spread,
      top_factor_1             |-> out.top_factor_1,
      features                 |-> out.features,
      ai_model                 |-> out.ai_model,
      created_at               |-> t,
      actual_outcome           |-> NULL,
      was_correct              |-> NULL,
      margin_of_error          |-> NULL,
      validated_at             |-> NULL ]

\* The fields a prediction is created with
CoreFields(p) ==
    [ game_id                  |-> p.game_id,
      home_team_id             |-> p.home_team_id,
      away_team_id             |-> p.away_team_id,
      predicted_winner_team_id |-> p.predicted_winner_team_id,
      confidence_score         |-> p.confidence_score,
      predicted_home_score     |-> p.predicted_home_score,
      predicted_away_score     |-> p.predicted_away_score,
      predicted_spread         |-> p.predicted_spread,
      top_factor_1             |-> p.top_factor_1,
      features                 |-> p.features,
      ai_model                 |-> p.ai_model,
      created_at               |-> p.created_at ]

\* The fields the validator's UPDATE sets
OutcomeFields(p) ==
    << p.actual_outcome, p.was_correct, p.margin_of_error, p.validated_at >>

Annotated(p) == OutcomeFields(p) # << NULL, NULL, NULL, NULL >>

\* An INSERT OR REPLACE keyed by the game: a second prediction for a game
\* overwrites the first
UpsertPrediction(P, row) ==
    IF IsNull(row.predicted_winner_team_id) THEN P
    ELSE IF \E i \in DOMAIN P : P[i].game_id = row.game_id
         THEN [P EXCEPT ![CHOOSE i \in DOMAIN P : P[i].game_id = row.game_id] = row]
         ELSE Append(P, row)

\* INSERT INTO ai_predictions_enhanced: predicted_winner_team_id is NOT NULL in
\* the schema, so a row without a winner is rejected (and the handler goes on).
InsertPrediction(P, row) ==
    IF IsNull(row.predicted_winner_team_id) THEN P ELSE Append(P, row)

----------------------------------------------------------------------------
(* runPredictionValidation *)

\* A selection without the test of the game's status
NeedsValidationAnyStatus(P, G, t, i) ==
    /\ P[i].game_id \in DOMAIN G
    /\ IsNull(P[i].actual_outcome)
    /\ P[i].created_at >= t - ValidationWindowDays

\* WHERE clause of the selection query, for prediction id i
NeedsValidation(P, G, t, i) ==
    /\ P[i].game_id \in DOMAIN G
    /\ G[P[i].game_id].status \in TerminalStatuses
    /\ IsNull(P[i].actual_outcome)
    /\ P[i].created_at >= t - ValidationWindowDays

\* One row of predictions.results: p.* with the game's scores, as read by SELECT
SelectedRow(P, G, i) ==
    [ id         |-> i,
      pred       |-> P[i],
      home_score |-> G[P[i].game_id].home_score,
      away_score |-> G[P[i].game_id].away_score ]

\* The selected rows, in id order: the k-th row is that of the k-th smallest
\* selected id
SelectAll(P, G, t) ==
    LET ids  == {i \in DOMAIN P : NeedsValidation(P, G, t, i)}
        rank == [i \in ids |-> Cardinality({j \in ids : j <= i})]
    IN  [k \in 1..Cardinality(ids) |->
            SelectedRow(P, G, CHOOSE i \in ids : rank[i] = k)]

\* predictions.results: the selection, cut by LIMIT
SelectPredictions(P, G, t) ==
    LET all == SelectAll(P, G, t)
    IN  IF Len(all) > ValidationBatchLimit
        THEN SubSeq(all, 1, ValidationBatchLimit)
        ELSE all

ActualWinner(r) ==
    IF ToNumber(r.home_score) > ToNumber(r.away_score)
    THEN r.pred.home_team_id
    ELSE r.pred.away_team_id

WasCorrect(r) == ActualWinner(r) = r.pred.predicted_winner_team_id

\* A margin that keeps the sign of the difference
SignedMargin(r) ==
    (ToNumber(r.home_score) - ToNumber(r.away_score))
        - ToNumber(r.pred.predicted_spread)

MarginOfError(r) ==
    LET actualSpread == ToNumber(r.home_score) - ToNumber(r.away_score)
        predictedSpread == ToNumber(r.pred.predicted_spread)
    IN  Abs(actualSpread - predictedSpread)

\* The SET clause of the UPDATE, applied to the stored row p
SetOutcome(p, r, t) ==
    [p EXCEPT !.actual_outcome  = ActualWinner(r),
              !.was_correct     = Val(IF WasCorrect(r) THEN 1 ELSE 0),
              !.margin_of_error = Val(MarginOfError(r)),
              !.validated_at    = Val(t)]

\* UPDATE ai_predictions_enhanced SET ... WHERE id = ?
UpdateOutcome(P, r, t) ==
    IF r.id \notin DOMAIN P THEN P
    ELSE [P EXCEPT ![r.id] = SetOutcome(@, r, t)]

\* The row bound by INSERT INTO prediction_accuracy
AccuracyRow(r, t) ==
    [ prediction_id      |-> r.id,
      game_id            |-> r.pred.game_id,
      predicted_winner   |-> r.pred.predicted_winner_team_id,
      actual_winner      |-> ActualWinner(r),
      prediction_correct |-> IF WasCorrect(r) THEN 1 ELSE 0,
      confidence_level   |-> r.pred.confidence_score,
      margin_of_error    |-> MarginOfError(r),
      created_at         |-> t ]

\* INSERT INTO prediction_accuracy
InsertAccuracy(A, r, t) == Append(A, AccuracyRow(r, t))

\* x / y * 100 printed by toFixed(2), in hundredths (round half up)
Percent2(x, y) == (20000 * x + y) \div (2 * y)

\* The seven-day statistics query over prediction_accuracy
SevenDayStats(A, t) ==
    LET rows == {i \in DOMAIN A : A[i].created_at >= t - ValidationWindowDays}
        ok   == {i \in rows : A[i].prediction_correct = 1}
    IN  [ total        |-> Cardinality(rows),
          correct      |-> Cardinality(ok),
          accuracy_pct |-> IF Cardinality(rows) > 0
                           THEN Percent2(Cardinality(ok), Cardinality(rows))
                           ELSE 0 ]

\* INSERT INTO system_logs
InsertLog(L, type, t) == Append(L, [log_type |-> type, created_at |-> t])

----------------------------------------------------------------------------
(* runWeightTuning *)

\* A selection without the test of features
TuningRowsWithoutFeatures(P, A, t) ==
    {i \in DOMAIN A :
        /\ A[i].prediction_id \in DOMAIN P
        /\ P[A[i].prediction_id].created_at >= t - TuningWindowDays}

\* The selection query: prediction_accuracy rows joined to their prediction,
\* inside the window and with features.  One result row per accuracy row.
TuningRows(P, A, t) ==
    {i \in DOMAIN A :
        /\ A[i].prediction_id \in DOMAIN P
        /\ P[A[i].prediction_id].created_at >= t - TuningWindowDays
        /\ ~IsNull(P[A[i].prediction_id].features)}

RowFeatures(P, A, i) == Get(P[A[i].prediction_id].features)

\* factorPerformance[f].count and .correct after the loop over the rows
FactorCount(P, A, rows, f) ==
    Cardinality({i \in rows : RowFeatures(P, A, i)[f] # "absent"})

FactorCorrect(P, A, rows, f) ==
    Cardinality({i \in rows : /\ RowFeatures(P, A, i)[f] # "absent"
                              /\ A[i].prediction_correct = 1})

\* factorAccuracy: for the factors with count > 0, accuracy as toFixed(2) prints it
FactorAccuracy(P, A, rows) ==
    [f \in {g \in Factors : FactorCount(P, A, rows, g) > 0} |->
        Percent2(FactorCorrect(P, A, rows, f), FactorCount(P, A, rows, f))]

\* currentWeights of the tuner, in hundredths
CurrentWeights ==
    [f \in Factors |->
        CASE f = "team_form"         -> 15
          [] f = "player_stats"      -> 20
          [] f = "injuries"          -> 18
          [] f = "travel_fatigue"    -> 12
          [] f = "head_to_head"      -> 10
          [] f = "home_advantage"    -> 8
          [] f = "rest_differential" -> 7]

\* this.weights of the prediction engine, in hundredths
EngineWeights ==
    [f \in Factors \cup {"weather", "recent_performance", "motivation"} |->
        CASE f = "weather"            -> 3
          [] f = "recent_performance" -> 5
          [] f = "motivation"         -> 2
          [] OTHER                    -> CurrentWeights[f]]

RECURSIVE SumOver(_, _)
SumOver(fn, S) ==
    IF S = {} THEN 0
    ELSE LET x == CHOOSE y \in S : TRUE
         IN  fn[x] + SumOver(fn, S \ {x})

\* An adjustment toward the factor's own accuracy (acc in hundredths of a
\* percent) instead of its share of the accuracies
ClampedWeightAbsolute(cur, acc, total) ==
    Max(20 * total, Min(300 * total, 7 * cur * total + (3 * acc * total) \div 100))

\* Math.max(0.02, Math.min(0.30, currentWeight + (acc / total - currentWeight) * 0.3))
\* as a numerator over 1000 * total: 0.7 * cur + 0.3 * acc / total, clamped
ClampedWeight(cur, acc, total) ==
    Max(20 * total, Min(300 * total, 7 * cur * total + 300 * acc))

\* (n / d).toFixed(3), in thousandths: three digits by long division, then
\* round half up on the remainder
ToFixed3(n, d) ==
    LET d1 == (10 * n) \div d
        r1 == (10 * n) % d
        d2 == (10 * r1) \div d
        r2 == (10 * r1) % d
        d3 == (10 * r2) \div d
        r3 == (10 * r2) % d
    IN  100 * d1 + 10 * d2 + d3 + (IF 2 * r3 >= d THEN 1 ELSE 0)

\* A reported weight: the string toFixed(3) returns, a number or "NaN"
Weight(m) == [nan |-> FALSE, milli |-> m]
NaNWeight == [nan |-> TRUE, milli |-> 0]

\* optimizedWeights after normalisation.  With totalAccuracy = 0 every
\* accuracyScore is 0 / 0 = NaN, which Math.min / Math.max and the sum keep.
OptimizedWeights(acc) ==
    LET total == SumOver(acc, DOMAIN acc)
        raw == [f \in DOMAIN acc |-> ClampedWeight(CurrentWeights[f], acc[f], total)]
        weightSum == SumOver(raw, DOMAIN acc)
    IN  [f \in DOMAIN acc |->
            IF total = 0 THEN NaNWeight ELSE Weight(ToFixed3(raw[f], weightSum))]

\* The value runWeightTuning returns on its two normal paths
TuningResult(P, A, t) ==
    LET rows == TuningRows(P, A, t)
        acc  == FactorAccuracy(P, A, rows)
    IN  IF Cardinality(rows) < MinimumRequired
        THEN [ success              |-> TRUE,
               message              |-> "Insufficient data for tuning",
               predictions_analyzed |-> Cardinality(rows),
               factor_accuracy      |-> << >>,
               optimized_weights    |-> << >> ]
        ELSE [ success              |-> TRUE,
               message              |-> "optimized",
               predictions_analyzed |-> Cardinality(rows),
               factor_accuracy      |-> acc,
               optimized_weights    |-> OptimizedWeights(acc) ]

----------------------------------------------------------------------------
(* Inputs *)

GameIds == 1..MaxGames

\* What the request and enrichGameData give for a game: a team the teams table
\* does not know has a NULL id
HomeIds == {Val("H"), NULL}
AwayIds == {Val("A"), NULL}

\* What the ensemble path of generatePrediction returns
EngineOutputs ==
    [ winner               : {"home", "away"},
      confidence_score     : {75},
      predicted_home_score : {102},
      predicted_away_score : {100},
      predicted_spread     : {Val(2)},
      top_factor_1         : {"Team Form Advantage"},
      features             : {Val(FullSnapshot)},
      ai_model             : {"Advanced Ensemble v2.0"} ]

\* Final scores the ingestion may record; a game may be closed without scores
FinalScores == { <<Val(2), Val(1)>>, <<Val(1), Val(2)>>, <<Val(1), Val(1)>>,
                 <<NULL, NULL>> }

NoGame == [status |-> "scheduled", home_score |-> NULL, away_score |-> NULL]

Runners == {1, 2}

Idle ==
    [ pc        |-> "idle",   \* the statement the call is about to execute
      rows      |-> << >>,    \* predictions.results
      i         |-> 0,        \* position of the for loop in rows
      validated |-> {},       \* positions counted in `validated`
      correct   |-> 0,
      failed    |-> {},       \* positions whose try block threw
      fatal     |-> FALSE,    \* the outer catch was entered
      retry     |-> FALSE,    \* started after some call had been abandoned
      success   |-> FALSE ]   \* the returned success, once pc = "done"

NoHist == [starts |-> 0, failures |-> 0, abandons |-> 0]

NoOp == [op |-> "none"]

----------------------------------------------------------------------------------------------------------------------------------------
(* Whole invocations, one at a time *)

\* The history of completed operations: the one just completed and the one
\* before it
Record(entry) == last' = entry /\ prev' = last

\* The store after the loop of runPredictionValidation over rows, every store
\* call succeeding: each selected prediction updated, one accuracy row appended
\* per selected row, in order
ValidateAll(rows, P, A, t) ==
    LET rowOf == [i \in {rows[k].id : k \in DOMAIN rows} |->
                     rows[CHOOSE k \in DOMAIN rows : rows[k].id = i]]
    IN  [ preds    |-> [i \in DOMAIN P |->
                          IF i \in DOMAIN rowOf
                          THEN SetOutcome(P[i], rowOf[i], t)
                          ELSE P[i]],
          accuracy |-> A \o [k \in DOMAIN rows |-> AccuracyRow(rows[k], t)] ]

CountCorrect(rows) == Cardinality({i \in DOMAIN rows : WasCorrect(rows[i])})

\* runPredictionValidation, start to return
RunPredictionValidation(maxRows, maxLogs) ==
    LET rows  == SelectPredictions(preds, games, now)
        after == ValidateAll(rows, preds, accuracy, now)
    IN  /\ Len(after.accuracy) <= maxRows
        /\ Len(logs) < maxLogs
        /\ preds' = after.preds
        /\ accuracy' = after.accuracy
        /\ logs' = InsertLog(logs, "prediction_validation", now)
        /\ Record([ op              |-> "validate",
                    success         |-> TRUE,
                    validated       |-> Len(rows),
                    correct         |-> CountCorrect(rows),
                    incorrect       |-> Len(rows) - CountCorrect(rows),
                    updated         |-> Len(rows),
                    inserted        |-> Len(after.accuracy) - Len(accuracy),
                    seven_day_stats |-> SevenDayStats(after.accuracy, now) ])
        /\ UNCHANGED <<games, weights, now, runs, hist>>

\* The distinct predictions behind the tuner's rows
DistinctTuned(P, A, t) == {A[i].prediction_id : i \in TuningRows(P, A, t)}

\* A tuner that adopts its proposal: the proposed weights, in hundredths,
\* written over the engine's
WeightsAppliedByTuner(w, res) ==
    [f \in DOMAIN w |->
        IF f \in DOMAIN res.optimized_weights /\ ~res.optimized_weights[f].nan
        THEN res.optimized_weights[f].milli \div 10
        ELSE w[f]]

\* The Weight Set after a tuning run: the tuner has no statement that assigns it
WeightsAfterTuning(w, res) == w

\* runWeightTuning, start to return, every store call succeeding
RunWeightTuning(maxLogs) ==
    LET res == TuningResult(preds, accuracy, now)
    IN  /\ Len(logs) < maxLogs
        /\ logs' = IF res.predictions_analyzed < MinimumRequired
                   THEN logs
                   ELSE InsertLog(logs, "weight_tuning", now)
        /\ weights' = WeightsAfterTuning(weights, res)
        /\ UNCHANGED <<games, preds, accuracy, now, runs, hist>>

\* What a tuning run returned, with the number of distinct predictions it read
\* and of system_logs rows it added
TuningEntry ==
    [ op       |-> "tune",
      distinct |-> Cardinality(DistinctTuned(preds, accuracy, now)),
      log_rows |-> Len(logs') - Len(logs),
      result   |-> TuningResult(preds, accuracy, now) ]

\* handleAdvancedPredictions for a request of one game, the engine returning out
HandleAdvancedPredictions(maxPreds, g, h, a, out) ==
    LET game == [id |-> g, homeTeamId |-> h, awayTeamId |-> a]
    IN  /\ Len(preds) < maxPreds
        /\ preds' = InsertPrediction(preds, PredictionRow(game, out, now))
        /\ UNCHANGED <<games, accuracy, logs, weights, now, runs, hist>>

\* The ingestion records a game's end (outside this repository's code)
GameFinal(g, st, sc) ==
    /\ games[g].status \notin TerminalStatuses
    /\ games' = [games EXCEPT ![g] =
                    [status |-> st, home_score |-> sc[1], away_score |-> sc[2]]]
    /\ UNCHANGED <<preds, accuracy, logs, weights, now, runs, hist>>

Init ==
    /\ games = [g \in GameIds |-> NoGame]
    /\ preds = << >>
    /\ accuracy = << >>
    /\ logs = << >>
    /\ weights = EngineWeights
    /\ now = 0
    /\ runs = [r \in Runners |-> Idle]
    /\ last = NoOp
    /\ prev = NoOp
    /\ hist = NoHist

NextSeq ==
    \/ RunPredictionValidation(MaxSeqRows, MaxSeqLogs)
    \/ RunWeightTuning(MaxSeqLogs) /\ Record(TuningEntry)
    \/ \E g \in GameIds, h \in HomeIds, a \in AwayIds, out \in EngineOutputs :
          HandleAdvancedPredictions(MaxSeqPreds, g, h, a, out)
              /\ Record([op |-> "predict"])
    \/ \E g \in GameIds, st \in TerminalStatuses, sc \in FinalScores :
          GameFinal(g, st, sc) /\ Record([op |-> "game"])

SpecSeq == Init /\ [][NextSeq]_vars

(* C1: a second runPredictionValidation right after a first one validates
   nothing, rewrites no outcome field, inserts no prediction_accuracy row and
   reports the same aggregate statistics. *)
ValidationIdempotent ==
    (last.op = "validate" /\ prev.op = "validate") =>
        /\ last.validated = 0
        /\ last.updated = 0
        /\ last.inserted = 0
        /\ last.seven_day_stats = prev.seven_day_stats

----------------------------------------------------------------------------
(* The tuner over stores of validated predictions *)

\* Feature snapshots that lack some factors: the tuner tests every key for
\* undefined, and the features column is free JSON text
OnlyPlayerSnapshot ==
    [f \in Factors |-> IF f = "player_stats" THEN "nonzero" ELSE "absent"]
NoPlayerSnapshot ==
    [f \in Factors |-> IF f = "player_stats" THEN "absent" ELSE "nonzero"]

EngineOutput(side, snap) ==
    [ winner               |-> side,
      confidence_score     |-> 75,
      predicted_home_score |-> 102,
      predicted_away_score |-> 100,
      predicted_spread     |-> Val(2),
      top_factor_1         |-> "Team Form Advantage",
      features             |-> Val(snap),
      ai_model             |-> "Advanced Ensemble v2.0" ]

\* The kinds of prediction in the tuner's input stores.  Game 1 ends with the
\* away team ahead, so a prediction of "away" is correct and one of "home" is
\* not; the last kind has an away team the teams table does not know.
TuneKinds ==
    << [h |-> Val("H"), a |-> Val("A"), out |-> EngineOutput("away", FullSnapshot)],
       [h |-> Val("H"), a |-> Val("A"), out |-> EngineOutput("home", FullSnapshot)],
       [h |-> Val("H"), a |-> Val("A"), out |-> EngineOutput("away", OnlyPlayerSnapshot)],
       [h |-> Val("H"), a |-> Val("A"), out |-> EngineOutput("home", NoPlayerSnapshot)],
       [h |-> Val("H"), a |-> NULL,     out |-> EngineOutput("home", FullSnapshot)] >>

\* The kind of the i-th prediction stored, n[k] requests of TuneBatch games of
\* each kind k having been made in the order of the kinds
KindAt(n, i) ==
    CHOOSE k \in DOMAIN TuneKinds :
        /\ SumOver(n, 1..(k - 1)) * TuneBatch < i
        /\ i <= SumOver(n, 1..k) * TuneBatch

\* The predictions table after those requests (every row has a winner and is
\* stored by InsertPrediction)
InsertKinds(n) ==
    [i \in 1..(SumOver(n, DOMAIN TuneKinds) * TuneBatch) |->
        InsertPrediction(<< >>, PredictionRow(
            [id |-> 1, homeTeamId |-> TuneKinds[KindAt(n, i)].h,
                       awayTeamId |-> TuneKinds[KindAt(n, i)].a],
            TuneKinds[KindAt(n, i)].out, 0))[1]]

TuneGames ==
    [g \in GameIds |->
        IF g = 1 THEN [status |-> "final", home_score |-> Val(1), away_score |-> Val(2)]
                 ELSE NoGame]

\* The store after the requests, the end of game 1 and one validator run
InitTune ==
    \E n \in [DOMAIN TuneKinds -> 0..MaxPerClass] :
        LET P0    == InsertKinds(n)
            rows  == SelectPredictions(P0, TuneGames, 0)
            after == ValidateAll(rows, P0, << >>, 0)
        IN  /\ games = TuneGames
            /\ preds = after.preds
            /\ accuracy = after.accuracy
            /\ logs = InsertLog(<< >>, "prediction_validation", 0)
            /\ weights = EngineWeights
            /\ now = 0
            /\ runs = [r \in Runners |-> Idle]
            /\ last = NoOp
            /\ prev = NoOp
            /\ hist = NoHist

NextTune ==
    \/ RunPredictionValidation(7 * MaxPerClass * TuneBatch, MaxTuneLogs)
    \/ RunWeightTuning(MaxTuneLogs) /\ Record(TuningEntry)

SpecTune == InitTune /\ [][NextTune]_vars

Tuned == last.op = "tune" /\ last.result.predictions_analyzed >= MinimumRequired

(* C7: with fewer than 20 distinct validated predictions runWeightTuning
   returns the insufficient-data result, proposes no weights and adds no
   system_logs row. *)
InsufficientBelowMinimum ==
    (last.op = "tune" /\ last.distinct < MinimumRequired) =>
        /\ last.result.success
        /\ last.result.message = "Insufficient data for tuning"
        /\ DOMAIN last.result.optimized_weights = {}
        /\ last.log_rows = 0

(* C8: no step changes the engine's Weight Set, and a tuning run writes
   nothing to the store but at most one appended system_logs row of type
   weight_tuning. *)
TunerNeverAppliesWeights ==
    [][ /\ weights' = weights
        /\ last'.op = "tune" =>
              /\ preds' = preds
              /\ accuracy' = accuracy
              /\ games' = games
              /\ \/ logs' = logs
                 \/ logs' = Append(logs, [log_type |-> "weight_tuning",
                                          created_at |-> now]) ]_vars

\* A tuning run with sufficient data has returned and logged its proposal
TunedWithProposal ==
    /\ Tuned
    /\ last.log_rows = 1
    /\ DOMAIN last.result.optimized_weights # {}
    /\ weights = EngineWeights

InRange(w) == ~w.nan /\ 20 <= w.milli /\ w.milli <= 300

(* C9: every weight of optimized_weights lies in [0.02, 0.30]. *)
OptimizedWeightsInRange ==
    Tuned => \A f \in DOMAIN last.result.optimized_weights :
                InRange(last.result.optimized_weights[f])

(* C10: the weights of optimized_weights, as reported, sum to 1.0. *)
OptimizedWeightsSumToOne ==
    Tuned =>
        /\ \A f \in DOMAIN last.result.optimized_weights :
              ~last.result.optimized_weights[f].nan
        /\ SumOver([f \in DOMAIN last.result.optimized_weights |->
                       last.result.optimized_weights[f].milli],
                   DOMAIN last.result.optimized_weights) = 1000

----------------------------------------------------------------------------
(* runPredictionValidation statement by statement, invocations overlapping *)

\* The ingestion records that a game has begun (outside this repository's code)
GameStart(g) ==
    /\ games[g].status = "scheduled"
    /\ games' = [games EXCEPT ![g].status = "in_progress"]
    /\ UNCHANGED <<preds, accuracy, logs, weights, now, runs, hist>>

\* A store call may throw, and a call may be dropped, while fewer than
\* MaxFaults faults have happened
FaultAllowed == hist.failures + hist.abandons < MaxFaults

MayFail(ok) == ok \/ FaultAllowed

Failures(ok) == [hist EXCEPT !.failures = IF ok THEN @ ELSE @ + 1]

\* The for loop moves to its next row, or past the last one to the statistics
NextRecord(run) ==
    [run EXCEPT !.i  = @ + 1,
                !.pc = IF run.i + 1 > Len(run.rows) THEN "finish" ELSE "update"]

\* A catch that gives the batch up: on to the statistics at once
AbortBatch(run) ==
    [run EXCEPT !.failed = @ \cup {run.i}, !.pc = "finish"]

\* The inner catch: the error is printed and the loop goes on
CatchRecordError(run) ==
    NextRecord([run EXCEPT !.failed = @ \cup {run.i}])

\* The outer catch: the error row is inserted (logged says whether that INSERT
\* succeeded; its own failure is swallowed) and { success: false } returned
FatalError(run) ==
    [run EXCEPT !.pc = "done", !.fatal = TRUE, !.success = FALSE]

ErrorLogged(L, logged, t) ==
    IF logged THEN InsertLog(L, "prediction_validation_error", t) ELSE L

\* The call begins and runs its selection query.  Runners are interchangeable,
\* so the first call ever started is taken to be runner 1's.
StartValidation(r, ok, logged) ==
    LET rows  == SelectPredictions(preds, games, now)
        begun == [Idle EXCEPT !.pc    = IF Len(rows) = 0 THEN "finish" ELSE "update",
                              !.rows  = rows,
                              !.i     = 1,
                              !.retry = hist.abandons > 0]
    IN  /\ runs[r].pc \in {"idle", "done", "abandoned"}
        /\ r = 1 \/ runs[1].pc # "idle"
        /\ hist.starts < MaxStarts
        /\ MayFail(ok)
        /\ ok => logged
        /\ runs' = [runs EXCEPT ![r] =
                      IF ok THEN begun
                      ELSE FatalError([Idle EXCEPT !.retry = hist.abandons > 0])]
        /\ logs' = IF ok THEN logs ELSE ErrorLogged(logs, logged, now)
        /\ hist' = [Failures(ok) EXCEPT !.starts = @ + 1]
        /\ UNCHANGED <<games, preds, accuracy, weights, now, last, prev>>

\* The UPDATE of the current row
UpdateStep(r, ok) ==
    /\ runs[r].pc = "update"
    /\ MayFail(ok)
    /\ preds' = IF ok THEN UpdateOutcome(preds, runs[r].rows[runs[r].i], now)
                ELSE preds
    /\ runs' = [runs EXCEPT ![r] = IF ok THEN [@ EXCEPT !.pc = "insert"]
                                   ELSE CatchRecordError(@)]
    /\ hist' = Failures(ok)
    /\ UNCHANGED <<games, accuracy, logs, weights, now, last, prev>>

\* The INSERT of the current row's accuracy record, then the counters
InsertStep(r, ok) ==
    /\ runs[r].pc = "insert"
    /\ MayFail(ok)
    /\ accuracy' = IF ok THEN InsertAccuracy(accuracy, runs[r].rows[runs[r].i], now)
                   ELSE accuracy
    /\ runs' = [runs EXCEPT ![r] =
                  IF ok
                  THEN NextRecord([@ EXCEPT
                           !.validated = @ \cup {runs[r].i},
                           !.correct   = IF WasCorrect(runs[r].rows[runs[r].i])
                                         THEN @ + 1 ELSE @])
                  ELSE CatchRecordError(@)]
    /\ hist' = Failures(ok)
    /\ UNCHANGED <<games, preds, logs, weights, now, last, prev>>

\* The statistics query and the INSERT of the run's system_logs row, then
\* return { success: true }; if either throws, the outer catch
FinishStep(r, ok, logged) ==
    /\ runs[r].pc = "finish"
    /\ MayFail(ok)
    /\ ok => logged
    /\ logs' = IF ok THEN InsertLog(logs, "prediction_validation", now)
               ELSE ErrorLogged(logs, logged, now)
    /\ runs' = [runs EXCEPT ![r] =
                  IF ok THEN [@ EXCEPT !.pc = "done", !.success = TRUE]
                  ELSE FatalError(@)]
    /\ hist' = Failures(ok)
    /\ UNCHANGED <<games, preds, accuracy, weights, now, last, prev>>

\* The platform drops the call between two store operations
Abandon(r) ==
    /\ runs[r].pc \in {"update", "insert", "finish"}
    /\ FaultAllowed
    /\ runs' = [runs EXCEPT ![r] = [Idle EXCEPT !.pc = "abandoned"]]
    /\ hist' = [hist EXCEPT !.abandons = @ + 1]
    /\ UNCHANGED <<games, preds, accuracy, logs, weights, now, last, prev>>

Next ==
    \/ \E r \in Runners, ok, logged \in BOOLEAN : StartValidation(r, ok, logged)
    \/ \E r \in Runners, ok \in BOOLEAN : UpdateStep(r, ok)
    \/ \E r \in Runners, ok \in BOOLEAN : InsertStep(r, ok)
    \/ \E r \in Runners, ok, logged \in BOOLEAN : FinishStep(r, ok, logged)
    \/ \E r \in Runners : Abandon(r)
    \/ RunWeightTuning(MaxStarts + 1) /\ UNCHANGED <<last, prev>>
    \/ \E g \in GameIds, out \in EngineOutputs :
          HandleAdvancedPredictions(MaxPreds, g, Val("H"), Val("A"), out)
              /\ UNCHANGED <<last, prev>>
    \/ \E g \in GameIds : GameStart(g) /\ UNCHANGED <<last, prev>>
    \/ \E g \in GameIds, st \in TerminalStatuses :
          GameFinal(g, st, <<Val(2), Val(1)>>) /\ UNCHANGED <<last, prev>>

Spec == Init /\ [][Next]_vars

\* The ids of the predictions a call has counted in `validated`
ValidatedIds(run) == {run.rows[k].id : k \in run.validated}

AccuracyRowsOf(i) == {k \in DOMAIN accuracy : accuracy[k].prediction_id = i}

\* No call is between two of its statements
Quiescent == \A r \in Runners : runs[r].pc \in {"idle", "done", "abandoned"}

(* C2: however runPredictionValidation calls overlap, every prediction has at
   most one prediction_accuracy row and is counted in `validated` by at most
   one of the calls. *)
CountedAtMostOnce ==
    \A i \in DOMAIN preds :
        /\ Cardinality(AccuracyRowsOf(i)) <= 1
        /\ Cardinality({r \in Runners : i \in ValidatedIds(runs[r])}) <= 1

(* C3: no step removes a stored prediction or changes any of its fields but
   actual_outcome, was_correct, margin_of_error and validated_at, and those
   change only in the UPDATE statement of a validator call working on that
   prediction. *)
PredictionsAppendOnly ==
    [][ \A i \in DOMAIN preds :
          /\ i \in DOMAIN preds'
          /\ CoreFields(preds'[i]) = CoreFields(preds[i])
          /\ preds'[i] = [preds[i] EXCEPT
                             !.actual_outcome  = preds'[i].actual_outcome,
                             !.was_correct     = preds'[i].was_correct,
                             !.margin_of_error = preds'[i].margin_of_error,
                             !.validated_at    = preds'[i].validated_at]
          /\ OutcomeFields(preds'[i]) # OutcomeFields(preds[i]) =>
                \E r \in Runners :
                    /\ runs[r].pc = "update"
                    /\ runs'[r].pc = "insert"
                    /\ runs[r].rows[runs[r].i].id = i ]_vars

\* A prediction has been annotated by a validator call and a prediction stored
\* by a later request stands beside it
AnnotatedBesideLaterPrediction ==
    \E i, j \in DOMAIN preds :
        /\ i < j
        /\ Annotated(preds[i])
        /\ ~Annotated(preds[j])
        /\ \E r \in Runners : i \in ValidatedIds(runs[r])

(* C4: in every reachable state a prediction that carries an outcome annotation
   has a game in status final or completed; none whose game is scheduled or in
   progress is annotated. *)
OutcomeOnlyAfterCompletion ==
    \A i \in DOMAIN preds :
        Annotated(preds[i]) =>
            games[preds[i].game_id].status \in TerminalStatuses

\* A call has returned having validated a prediction, whose game has ended
ValidatedAfterCompletion ==
    \E i \in DOMAIN preds, r \in Runners :
        /\ Annotated(preds[i])
        /\ ~IsNull(preds[i].validated_at)
        /\ games[preds[i].game_id].status \in TerminalStatuses
        /\ i \in ValidatedIds(runs[r])
        /\ runs[r].pc = "done"

(* C5: a call in which the UPDATE or the INSERT of some selected predictions
   threw, and nothing else did, returns success = true having validated and
   counted every other selected prediction. *)
BatchSurvivesRecordFailure ==
    \A r \in Runners :
        (runs[r].pc = "done" /\ ~runs[r].fatal) =>
            /\ runs[r].success
            /\ runs[r].validated = DOMAIN runs[r].rows \ runs[r].failed
            /\ \A k \in runs[r].validated :
                  /\ Annotated(preds[runs[r].rows[k].id])
                  /\ AccuracyRowsOf(runs[r].rows[k].id) # {}

\* A call has returned success after a record that failed and a later one that
\* it validated
FailedRecordThenValidated ==
    \E r \in Runners :
        /\ runs[r].pc = "done"
        /\ runs[r].success
        /\ \E k \in runs[r].failed, j \in runs[r].validated : k < j

(* C6: once a call has been abandoned and a call started after that has
   returned, no store call having thrown and no call being in progress, every
   annotated prediction has its prediction_accuracy row. *)
RetryCompletesAbandonedRun ==
    ( /\ Quiescent
      /\ hist.failures = 0
      /\ \E r \in Runners : runs[r].pc = "done" /\ runs[r].retry ) =>
        \A i \in DOMAIN preds :
            Annotated(preds[i]) => AccuracyRowsOf(i) # {}

----------------------------------------------------------------------------
(* DatabaseAdapter: the sub-scores.  Scores on the 0-10 scale are integers in
   tenths; the inputs of a call are what its queries return. *)

\* Math.round(n / d) for d > 0: the nearest integer, halves upwards
Round(n, d) == (2 * n + d) \div (2 * d)

Clamp(x, lo, hi) == Max(lo, Min(hi, x))

\* getTeamRecentGames(teamId, 5): at most five games
RecentGamesLimit == 5

MaxAge == 7          \* oldest age, in days, of a game in a team's schedule

\* A team's recent final games as calculateTravelFatigue reads them: their
\* ages in whole days at the time of the call, the most recent first
Schedules ==
    {s \in UNION {[1..k -> 0..MaxAge] : k \in 0..RecentGamesLimit} :
        \A i \in DOMAIN s : i = 1 \/ s[i - 1] <= s[i]}

DaysSinceLastGame(s) == s[1]

\* games dated after oneWeekAgo
GamesLastWeek(s) == Cardinality({i \in DOMAIN s : s[i] < 7})

\* A step table in which one day of rest tires more than none
SwappedFatigueTable(d) ==
    IF d = 0 THEN 7
    ELSE IF d = 1 THEN 10
    ELSE IF d = 2 THEN 4
    ELSE IF d = 3 THEN 2
    ELSE 0

\* The if / else if chain over daysSinceLastGame
FatigueTable(d) ==
    IF d = 0 THEN 10
    ELSE IF d = 1 THEN 7
    ELSE IF d = 2 THEN 4
    ELSE IF d = 3 THEN 2
    ELSE 0

\* calculateTravelFatigue: [days_rest, games_in_last_week, fatigue_score]
CalculateTravelFatigue(s) ==
    IF Len(s) = 0
    THEN [days_rest |-> 7, games_in_last_week |-> 0, fatigue_score |-> 0]
    ELSE [ days_rest          |-> DaysSinceLastGame(s),
           games_in_last_week |-> GamesLastWeek(s),
           fatigue_score      |->
               Clamp(FatigueTable(DaysSinceLastGame(s))
                         + Min(3, GamesLastWeek(s) - 2), 0, 10) ]

\* The store holds nothing and nothing is running
StoreAtRest ==
    /\ games = [g \in GameIds |-> NoGame]
    /\ preds = << >>
    /\ accuracy = << >>
    /\ logs = << >>
    /\ weights = EngineWeights
    /\ now = 0
    /\ runs = [r \in Runners |-> Idle]
    /\ prev = NoOp
    /\ hist = NoHist

InitFatigue ==
    /\ StoreAtRest
    /\ \E s \in Schedules : last = [op |-> "schedule", schedule |-> s]

\* One call of calculateTravelFatigue
TravelFatigue ==
    /\ last.op = "schedule"
    /\ last' = [ op       |-> "fatigue",
                 schedule |-> last.schedule,
                 result   |-> CalculateTravelFatigue(last.schedule) ]
    /\ UNCHANGED <<games, preds, accuracy, logs, weights, now, runs, prev, hist>>

NextFatigue == TravelFatigue

SpecFatigue == InitFatigue /\ [][NextFatigue]_vars

\* What calculateTravelFatigue returns over all the schedules
FatigueResults == {CalculateTravelFatigue(t) : t \in Schedules}

(* C16: a schedule with the same number of games in the trailing 7 days and at
   least as many days since the last game never has the larger fatigue_score,
   and one with the same days since the last game and at least as many games
   in the trailing 7 days never has the smaller. *)
FatigueMonotone ==
    last.op = "fatigue" =>
        \A other \in FatigueResults :
            LET mine == last.result
            IN  /\ ( /\ other.games_in_last_week = mine.games_in_last_week
                     /\ other.days_rest >= mine.days_rest )
                       => other.fatigue_score <= mine.fatigue_score
                /\ ( /\ other.days_rest = mine.days_rest
                     /\ other.games_in_last_week >= mine.games_in_last_week )
                       => other.fatigue_score >= mine.fatigue_score

\* A team that played yesterday and three times this week has been scored
FatigueOfBackToBack ==
    /\ last.op = "fatigue"
    /\ last.result.days_rest = 1
    /\ last.result.games_in_last_week = 3
    /\ last.result.fatigue_score = 8

(* C17: fatigue_score is the step table of the days since the last game, plus
   one per game beyond two in the trailing 7 days, clamped to [0, 10]. *)
FatigueIsTablePlusExcess ==
    last.op = "fatigue" =>
        last.result.fatigue_score =
            Clamp(FatigueTable(last.result.days_rest)
                      + Max(0, last.result.games_in_last_week - 2), 0, 10)

----------------------------------------------------------------------------
(* The outcome the validator writes *)

\* The final score of the side a stored prediction picked, and of the other side
PickedScore(p, g) ==
    IF p.predicted_winner_team_id = p.home_team_id
    THEN ToNumber(g.home_score) ELSE ToNumber(g.away_score)
OtherScore(p, g) ==
    IF p.predicted_winner_team_id = p.home_team_id
    THEN ToNumber(g.away_score) ELSE ToNumber(g.home_score)

(* C20: the validator writes was_correct = 1 exactly when the predicted winner
   has the strictly higher final score; on a tie it writes was_correct = 0
   whichever team was predicted. *)
CorrectIffStrictlyAhead ==
    \A i \in DOMAIN preds :
        Annotated(preds[i]) =>
            LET p == preds[i]
                g == games[p.game_id]
            IN  (p.was_correct = Val(1)) <=> (PickedScore(p, g) > OtherScore(p, g))

----------------------------------------------------------------------------
(* The prediction engine: what the adapter computes from the store *)

\* Sub-scores are kept in hundredths of a point (5.0 is 500), the differential
\* in thousandths, predicted scores in hundred-thousandths: every product and
\* quotient of the code is then an integer and is computed exactly.
Hundredths(n) == 100 * n

\* calculateTeamForm reads the team's last 10 final games; t is what its loop
\* accumulates from them: the games read, the wins, the wins among the first
\* five, the points scored and allowed.  form_score in hundredths:
\* winPercentage * 5 + clamp(pointDiff / 10, -2.5, 2.5) + 2.5 + recentWins / 5 * 2,
\* rounded to a tenth and clamped to 0..10.
CalculateTeamForm(t) ==
    IF t.games_played = 0
    THEN [games_played |-> 0, form_score |-> 500]
    ELSE LET g      == t.games_played
             tenths == 50 * t.wins
                       + Clamp(t.scored - t.allowed, -25 * g, 25 * g)
                       + 25 * g
                       + 4 * t.last_5_wins * g
         IN  [games_played |-> g,
              form_score   |-> 10 * Clamp(Round(tenths, g), 0, 100)]

\* adapter.getHeadToHeadHistory over m = [total_games, team1_wins], team1 being
\* the home team of the game predicted: h2h_score = round(winPct * 10 * 10) / 10
H2HScore(m) ==
    IF m.total_games = 0 THEN 500
    ELSE 10 * Round(100 * m.team1_wins, m.total_games)

\* calculateInjuryImpact over the severities of a team's injuries rows
SeverityPoints(s) ==
    IF s = "severe" THEN 3
    ELSE IF s = "moderate" THEN 2
    ELSE IF s = "minor" THEN 1
    ELSE 0

CalculateInjuryImpact(injuries) ==
    Min(10, SumOver([i \in DOMAIN injuries |-> SeverityPoints(injuries[i])],
                    DOMAIN injuries))

\* getTeamInjuries: impact_score of the team's rows, 0 when it has none
GetTeamInjuries(injuries) ==
    [ total_injuries |-> Len(injuries),
      impact_score   |-> IF Len(injuries) > 0 THEN CalculateInjuryImpact(injuries)
                                              ELSE 0 ]

\* calculateAvgEfficiency over the efficiency of a team's players, times 100:
\* a player whose efficiency is 0 counts as 50
CalculateAvgEfficiency(players) ==
    IF Len(players) = 0 THEN Hundredths(50)
    ELSE Hundredths(SumOver([i \in DOMAIN players |->
                                IF players[i] = 0 THEN 50 ELSE players[i]],
                            DOMAIN players)) \div Len(players)

----------------------------------------------------------------------------
(* The prediction engine: data collection *)

\* The adapter calls of one generatePrediction; each may throw (the store is
\* unreachable, a query fails)
Fetches == {"home_form", "away_form", "injuries", "travel_fatigue",
            "head_to_head", "players"}

\* getTeamForm: on an error, the neutral form
GetTeamForm(failed, t) ==
    IF failed THEN [games_played |-> 0, form_score |-> 500]
    ELSE CalculateTeamForm(t)

\* analyzeInjuries: impact_score || 0 of both teams, 0 and 0 on an error
AnalyzeInjuries(failed, home, away) ==
    IF failed THEN [home_impact |-> 0, away_impact |-> 0]
    ELSE [home_impact |-> Hundredths(GetTeamInjuries(home).impact_score),
          away_impact |-> Hundredths(GetTeamInjuries(away).impact_score)]

\* One side of analyzeTravelFatigue: fatigue_score || 0 and days_rest || 7, so
\* a team that played today counts 7 days of rest
TeamTravel(s) ==
    LET f == CalculateTravelFatigue(s)
    IN  [overall_fatigue_score |-> Hundredths(f.fatigue_score),
         days_since_last_game  |-> IF f.days_rest = 0 THEN 7 ELSE f.days_rest]

AnalyzeTravelFatigue(failed, home, away) ==
    IF failed
    THEN [home |-> [overall_fatigue_score |-> 200, days_since_last_game |-> 3],
          away |-> [overall_fatigue_score |-> 200, days_since_last_game |-> 3]]
    ELSE [home |-> TeamTravel(home), away |-> TeamTravel(away)]

\* getHeadToHeadHistory of the engine: the adapter's h2h_score, 5.0 on an error
GetHeadToHeadHistory(failed, m) ==
    [homeAdvantage |-> IF failed THEN 500 ELSE H2HScore(m)]

\* analyzePlayerMatchups: the average efficiency over 10, clamped to 0..10
AnalyzePlayerMatchups(failed, home, away) ==
    IF failed THEN [homeAdvantage |-> 500, awayAdvantage |-> 500]
    ELSE [homeAdvantage |-> Clamp(CalculateAvgEfficiency(home) \div 10, 0, 1000),
          awayAdvantage |-> Clamp(CalculateAvgEfficiency(away) \div 10, 0, 1000)]

\* normalizeTeamForm: a form_score of 0 is falsy and becomes 5.0
NormalizeTeamForm(formData) ==
    IF formData.form_score = 0 THEN 500 ELSE formData.form_score

\* calculateHomeAdvantage: 5.5, plus (home_field_advantage_score - 5) * 0.5
\* when the venue carries a non-zero score, clamped to 3..8 and rounded to a
\* tenth.  The adapter's form data has no home_record, so that term is never
\* added.
CalculateHomeAdvantage(venue) ==
    LET advantage == 550 + (IF IsNull(venue) \/ Get(venue) = 0 THEN 0
                            ELSE (Get(venue) - 5) * 50)
    IN  10 * Round(Clamp(advantage, 300, 800), 10)

\* calculateRestAdvantage: the difference in days of rest, clamped to -5..5
CalculateRestAdvantage(homeRest, awayRest) ==
    Hundredths(Clamp(homeRest.days_since_last_game
                     - awayRest.days_since_last_game, -5, 5))

\* The features object of generatePrediction for the input in; weather, news
\* and betting trends are the placeholders' constants
Features(in) ==
    LET homeForm   == GetTeamForm("home_form" \in in.failed, in.home.form)
        awayForm   == GetTeamForm("away_form" \in in.failed, in.away.form)
        injuries   == AnalyzeInjuries("injuries" \in in.failed,
                                      in.home.injuries, in.away.injuries)
        travelData == AnalyzeTravelFatigue("travel_fatigue" \in in.failed,
                                           in.home.schedule, in.away.schedule)
        h2hHistory == GetHeadToHeadHistory("head_to_head" \in in.failed,
                                           in.meetings)
        playerMatchups == AnalyzePlayerMatchups("players" \in in.failed,
                                                in.home.players, in.away.players)
    IN  [ home_team_form        |-> NormalizeTeamForm(homeForm),
          away_team_form        |-> NormalizeTeamForm(awayForm),
          home_player_advantage |-> playerMatchups.homeAdvantage,
          away_player_advantage |-> playerMatchups.awayAdvantage,
          home_injury_impact    |-> injuries.home_impact,
          away_injury_impact    |-> injuries.away_impact,
          home_fatigue          |-> travelData.home.overall_fatigue_score,
          away_fatigue          |-> travelData.away.overall_fatigue_score,
          h2h_advantage         |-> h2hHistory.homeAdvantage,
          home_court_advantage  |-> CalculateHomeAdvantage(in.venue),
          rest_advantage        |-> CalculateRestAdvantage(travelData.home,
                                                           travelData.away),
          weather_impact        |-> 0,
          home_sentiment        |-> 500,
          away_sentiment        |-> 500,
          sharp_money_indicator |-> "neutral",
          line_value            |-> 0 ]

----------------------------------------------------------------------------
(* The prediction engine: the weighted ensemble *)

\* game.sport of a request whose sport is not a string (a number, an object):
\* it passes the handler's test !game.sport and has no toLowerCase
NotAString == "<not a string>"

\* The switch of predictScores on sport.toLowerCase(): baseHome and baseAway in
\* tenths, variance in points
ScoreBase(sport) ==
    IF sport = "nba" THEN [home |-> 1100, away |-> 1050, variance |-> 15]
    ELSE IF sport = "nfl" THEN [home |-> 240, away |-> 210, variance |-> 7]
    ELSE IF sport = "mlb" THEN [home |-> 45, away |-> 40, variance |-> 2]
    ELSE [home |-> 1000, away |-> 950, variance |-> 10]

\* predictScores, in hundred-thousandths of a point; adv is homeWinProb in
\* thousandths of a percent
PredictScores(sport, adv, features) ==
    LET b == ScoreBase(sport)
        v == b.variance
        scoreAdjustment == (adv - 50000) * 2 * v
        homeScore == b.home * 10000 + scoreAdjustment
                     + (features.home_team_form - 500) * v * 200
                     - features.home_injury_impact * v * 100
                     - features.home_fatigue * v * 100
        awayScore == b.away * 10000 - scoreAdjustment
                     + (features.away_team_form - 500) * v * 200
                     - features.away_injury_impact * v * 100
                     - features.away_fatigue * v * 100
    IN  [homeScore |-> Max(0, homeScore), awayScore |-> Max(0, awayScore)]

\* homeAdvantage before the clamp, in thousandths
HomeAdvantageSum(features) ==
    50000
    + (features.home_team_form - features.away_team_form) * 30
    + (features.home_player_advantage - features.away_player_advantage) * 40
    + (features.away_injury_impact - features.home_injury_impact) * 36
    + (features.away_fatigue - features.home_fatigue) * 24
    + features.h2h_advantage * 20
    + features.home_court_advantage * 16
    + features.rest_advantage * 14
    + features.weather_impact * 6
    + (features.home_sentiment - features.away_sentiment) * 4
    + (IF features.sharp_money_indicator = "home" THEN 10000
       ELSE IF features.sharp_money_indicator = "away" THEN -10000
       ELSE 0)

\* A differential left as summed
UnclampedAdvantage(features) == HomeAdvantageSum(features)

\* homeAdvantage = Math.max(0, Math.min(100, homeAdvantage))
HomeAdvantage(features) == Clamp(HomeAdvantageSum(features), 0, 100000)

\* calculateWeightedPrediction; spread is in tenths, the rest in whole units
CalculateWeightedPrediction(features, sport) ==
    LET adv    == HomeAdvantage(features)
        scores == PredictScores(sport, adv, features)
    IN  [ winner             |-> IF adv > 50000 THEN "home" ELSE "away",
          homeAdvantage      |-> adv,
          homeWinProbability |-> Round(adv, 1000),
          awayWinProbability |-> Round(100000 - adv, 1000),
          homeScore          |-> Round(scores.homeScore, 100000),
          awayScore          |-> Round(scores.awayScore, 100000),
          spread             |-> Round(scores.homeScore - scores.awayScore, 10000),
          total              |-> Round(scores.homeScore + scores.awayScore, 100000) ]

\* hasValidData: every key is present (no feature of the model is null)
HasValidData(features, keys) == keys \subseteq DOMAIN features

\* A confidence without Math.min(95, Math.max(60, overall))
UnclampedConfidence(overall) == overall

\* overall = Math.min(95, Math.max(60, overall))
OverallConfidence(overall) == Clamp(overall, 60, 95)

\* calculateConfidence: dataQuality is the mean of the eight factor scores,
\* overall = round(dataQuality * 0.6 + predictionStrength * 100 * 0.4), with
\* predictionStrength = |homeWinProbability - 50| / 50
CalculateConfidence(features, prediction) ==
    LET c == [ playerStats   |-> IF HasValidData(features, {"home_player_advantage",
                                        "away_player_advantage"}) THEN 85 ELSE 60,
               injuries      |-> IF HasValidData(features, {"home_injury_impact",
                                        "away_injury_impact"}) THEN 90 ELSE 70,
               travelFatigue |-> IF HasValidData(features, {"home_fatigue",
                                        "away_fatigue"}) THEN 80 ELSE 65,
               form          |-> IF HasValidData(features, {"home_team_form",
                                        "away_team_form"}) THEN 85 ELSE 70,
               h2h           |-> IF HasValidData(features, {"h2h_advantage"})
                                 THEN 75 ELSE 50,
               weather       |-> IF HasValidData(features, {"weather_impact"})
                                 THEN 70 ELSE 60,
               homeAdvantage |-> 85,
               rest          |-> IF HasValidData(features, {"rest_advantage"})
                                 THEN 80 ELSE 65 ]
        sum == SumOver(c, DOMAIN c)
        \* dataQuality * 0.6 = sum * 0.075 and strength * 40 = |p - 50| * 0.8,
        \* both over 1000
        overall == Round(75 * sum + 800 * Abs(prediction.homeWinProbability - 50),
                         1000)
    IN  [ overall       |-> OverallConfidence(overall),
          playerStats   |-> c.playerStats,
          injuries      |-> c.injuries,
          travelFatigue |-> c.travelFatigue,
          form          |-> c.form,
          h2h           |-> c.h2h,
          weather       |-> c.weather,
          homeAdvantage |-> c.homeAdvantage,
          rest          |-> c.rest ]

\* The entries of impacts in identifyKeyFactors, in insertion order
FactorNames ==
    << "Team Form Advantage", "Player Performance Edge", "Injury Situation",
       "Travel & Fatigue", "Head-to-Head History", "Home Court Advantage",
       "Rest Differential", "Weather Conditions" >>

\* impacts, rounded to a tenth (in tenths); w is the Weight Set in hundredths.
\* Every entry is |difference| * weight * 10 but Home Court Advantage, which is
\* home_court_advantage * weight.
Impacts(features, w) ==
    << Round(Abs(features.home_team_form - features.away_team_form)
                 * w.team_form, 100),
       Round(Abs(features.home_player_advantage - features.away_player_advantage)
                 * w.player_stats, 100),
       Round(Abs(features.home_injury_impact - features.away_injury_impact)
                 * w.injuries, 100),
       Round(Abs(features.home_fatigue - features.away_fatigue)
                 * w.travel_fatigue, 100),
       Round(Abs(features.h2h_advantage) * w.head_to_head, 100),
       Round(features.home_court_advantage * w.home_advantage, 1000),
       Round(Abs(features.rest_advantage) * w.rest_differential, 100),
       Round(Abs(features.weather_impact) * w.weather, 100) >>

\* identifyKeyFactors: the factors sorted by impact, largest first, equal
\* impacts in insertion order; the first three
IdentifyKeyFactors(features, w) ==
    LET imp  == Impacts(features, w)
        rank == [i \in DOMAIN imp |->
                    1 + Cardinality({j \in DOMAIN imp :
                            imp[j] > imp[i] \/ (imp[j] = imp[i] /\ j < i)})]
    IN  [k \in 1..3 |->
            LET i == CHOOSE j \in DOMAIN imp : rank[j] = k
            IN  [name |-> FactorNames[i], impact |-> imp[i]]]

\* assessRisk: variance is the mean of the four absolute differences rounded
\* to a tenth (in tenths); upsetProbability = round(min(45, 100 - favoured
\* probability + variance * 2))
AssessRisk(features, prediction) ==
    LET sum == Abs(features.home_team_form - features.away_team_form)
               + Abs(features.home_player_advantage - features.away_player_advantage)
               + Abs(features.home_injury_impact - features.away_injury_impact)
               + Abs(features.home_fatigue - features.away_fatigue)
        variance == Round(sum, 40)
        favoredTeamProb == Max(prediction.homeWinProbability,
                               prediction.awayWinProbability)
        upsetProb == 100 - favoredTeamProb
        adjustedUpsetProb == Min(450, 10 * upsetProb + 2 * variance)
    IN  [variance |-> variance, upsetProbability |-> Round(adjustedUpsetProb, 10)]

\* finalPrediction of generatePrediction.  confidence_score, scores, total,
\* upset_probability and the factor confidences are whole numbers, spread,
\* impacts and variance_score tenths.
FinalPrediction(in, features, w, t) ==
    LET prediction == CalculateWeightedPrediction(features, in.sport)
        confidence == CalculateConfidence(features, prediction)
        keyFactors == IdentifyKeyFactors(features, w)
        riskAssessment == AssessRisk(features, prediction)
    IN  [ game_id                      |-> in.id,
          predicted_winner_team_id     |-> IF prediction.winner = "home"
                                           THEN in.homeTeamId ELSE in.awayTeamId,
          predicted_winner_name        |-> IF prediction.winner = "home"
                                           THEN in.homeTeam ELSE in.awayTeam,
          confidence_score             |-> confidence.overall,
          predicted_home_score         |-> prediction.homeScore,
          predicted_away_score         |-> prediction.awayScore,
          predicted_spread             |-> prediction.spread,
          predicted_total_score        |-> prediction.total,
          player_stats_confidence      |-> confidence.playerStats,
          injury_impact_confidence     |-> confidence.injuries,
          travel_fatigue_confidence    |-> confidence.travelFatigue,
          form_momentum_confidence     |-> confidence.form,
          head_to_head_confidence      |-> confidence.h2h,
          weather_impact_confidence    |-> confidence.weather,
          home_advantage_confidence    |-> confidence.homeAdvantage,
          rest_differential_confidence |-> confidence.rest,
          top_factor_1                 |-> keyFactors[1].name,
          top_factor_1_impact          |-> keyFactors[1].impact,
          top_factor_2                 |-> keyFactors[2].name,
          top_factor_2_impact          |-> keyFactors[2].impact,
          top_factor_3                 |-> keyFactors[3].name,
          top_factor_3_impact          |-> keyFactors[3].impact,
          upset_probability            |-> riskAssessment.upsetProbability,
          variance_score               |-> riskAssessment.variance,
          ai_model                     |-> "Advanced Ensemble v2.0",
          model_version                |-> "2.0.0",
          algorithm                    |-> "weighted_ensemble_ml",
          features_used                |-> Cardinality(DOMAIN features),
          features                     |-> features,
          created_at                   |-> t ]

\* generateFallbackPrediction: confidence = floor(random * 20) + 65 and
\* spread = random * 10 - 5; draw is [confidence, spread], the first product
\* floored, the second in hundredths.  predicted_spread is in tenths.
GenerateFallbackPrediction(in, draw, t) ==
    LET confidence == draw.confidence + 65
        spread     == draw.spread - 500
    IN  [ game_id                  |-> in.id,
          predicted_winner_team_id |-> IF spread > 0 THEN in.homeTeamId
                                                     ELSE in.awayTeamId,
          predicted_winner_name    |-> IF spread > 0 THEN in.homeTeam
                                                     ELSE in.awayTeam,
          confidence_score         |-> confidence,
          predicted_spread         |-> Round(spread, 10),
          ai_model                 |-> "Fallback Statistical Model",
          model_version            |-> "1.0.0",
          created_at               |-> t ]

\* What makes the try block of generatePrediction throw: every data collection
\* method catches its own errors, so only sport.toLowerCase() of predictScores
\* on a sport that is not a string
Throws(in) == in.sport = NotAString

\* generatePrediction(game)
GeneratePredictionRecord(in, w, draw, t) ==
    IF Throws(in) THEN GenerateFallbackPrediction(in, draw, t)
    ELSE FinalPrediction(in, Features(in), w, t)

----------------------------------------------------------------------------
(* The prediction engine: the games it is asked to predict *)

\* What calculateTeamForm accumulates for a team: no final game; Team X of
\* Scenario A (10 games, 7 wins, 112 for and 103 against a game) with r wins
\* in its last 5; Team Y (10 games, 4 wins, 101 for, 108 against); a team that
\* lost, and one that won, every game by a large margin; a team of 3 games
NoGames ==
    [games_played |-> 0, wins |-> 0, last_5_wins |-> 0, scored |-> 0, allowed |-> 0]
TeamX(r) ==
    [games_played |-> 10, wins |-> 7, last_5_wins |-> r,
     scored |-> 1120, allowed |-> 1030]
TeamY(r) ==
    [games_played |-> 10, wins |-> 4, last_5_wins |-> r,
     scored |-> 1010, allowed |-> 1080]
Winless ==
    [games_played |-> 10, wins |-> 0, last_5_wins |-> 0,
     scored |-> 800, allowed |-> 1100]
Unbeaten ==
    [games_played |-> 10, wins |-> 10, last_5_wins |-> 5,
     scored |-> 1200, allowed |-> 900]
ThreeGames ==
    [games_played |-> 3, wins |-> 2, last_5_wins |-> 2,
     scored |-> 301, allowed |-> 290]

\* 7 of 10 wins leave at least 2 in the last 5, 4 of 10 at most 4
TeamForms ==
    {NoGames, Winless, Unbeaten, ThreeGames}
        \cup {TeamX(r) : r \in 2..5} \cup {TeamY(r) : r \in 0..4}

\* The team's last games (at most 5) all played a week ago or earlier: no
\* fatigue, 7 days of rest
Rested(form) == [i \in 1..Min(RecentGamesLimit, form.games_played) |-> MaxAge]

\* A team with that form and nothing else on record: no injury, no player
TeamOf(form) ==
    [form |-> form, schedule |-> Rested(form), injuries |-> << >>,
     players |-> << >>]

BusySchedules ==
    { <<0, 0, 1, 2, 3>>, <<1, 2, 3, 7, 7>>, <<2, 7, 7, 7, 7>>,
      <<3, 3, 7, 7, 7>>, <<7, 7, 7, 7, 7>> }

InjuryLists ==
    { << >>, <<"minor">>, <<"moderate", "questionable">>,
      <<"severe", "severe", "severe", "severe">> }

\* The efficiency transformPlayer computed for each player of a team
PlayerLists == { << >>, <<100, 100>>, <<0>>, <<35, 50>>, <<10>> }

\* total_games and team1_wins of the two teams' past meetings
Meetings ==
    { [total_games |-> 0, team1_wins |-> 0], [total_games |-> 1, team1_wins |-> 1],
      [total_games |-> 3, team1_wins |-> 1], [total_games |-> 10, team1_wins |-> 0] }

\* venue.home_field_advantage_score of the request, when it has one
Venues == {NULL, Val(1), Val(12)}

Sports == {"nba", "nfl", "mlb", "nhl", NotAString}

EngineGame(home, away, meetings, venue, sport, failed) ==
    [ id |-> 1, homeTeam |-> "Home", awayTeam |-> "Away",
      homeTeamId |-> Val("H"), awayTeamId |-> Val("A"),
      sport |-> sport, venue |-> venue,
      home |-> home, away |-> away, meetings |-> meetings, failed |-> failed ]

\* Every pairing of the forms, nothing else on record
FormGames ==
    { EngineGame(TeamOf(h), TeamOf(a), [total_games |-> 0, team1_wins |-> 0],
                 NULL, "nba", {}) : h \in TeamForms, a \in TeamForms }

\* Two teams of equal form with every schedule, injury list and past meetings
ScheduleGames ==
    { EngineGame([TeamOf(TeamY(2)) EXCEPT !.schedule = s[1], !.injuries = i[1]],
                 [TeamOf(TeamY(2)) EXCEPT !.schedule = s[2], !.injuries = i[2]],
                 m, NULL, "nfl", f) :
        s \in BusySchedules \X BusySchedules, i \in InjuryLists \X InjuryLists,
        m \in Meetings, f \in {{}, {"travel_fatigue", "head_to_head"}} }

\* Two teams without a game with every player list, venue and sport, the
\* store answering, failing in part, or unreachable
PlayerGames ==
    { EngineGame([TeamOf(NoGames) EXCEPT !.players = p[1]],
                 [TeamOf(NoGames) EXCEPT !.players = p[2]],
                 [total_games |-> 0, team1_wins |-> 0], v, sp, f) :
        p \in PlayerLists \X PlayerLists, v \in Venues, sp \in Sports,
        f \in {{}, Fetches, {"players", "injuries"}, {"home_form", "away_form"}} }

EngineGames == FormGames \cup ScheduleGames \cup PlayerGames

\* The two Math.random() draws of generateFallbackPrediction: floor(random * 20)
\* and random * 10 in hundredths
Draws == [confidence : 0..19, spread : {0, 500, 501, 999}]

InitEngine ==
    /\ StoreAtRest
    /\ \E g \in EngineGames : last = [op |-> "game", game |-> g]

\* generatePrediction(game): the record returned, with the features and the
\* differential of the ensemble path
GeneratePrediction ==
    /\ last.op = "game"
    /\ IF Throws(last.game)
       THEN \E draw \in Draws :
               last' = [ op     |-> "prediction",
                         path   |-> "fallback",
                         game   |-> last.game,
                         record |-> GeneratePredictionRecord(last.game, weights,
                                                             draw, now) ]
       ELSE last' = [ op       |-> "prediction",
                      path     |-> "ensemble",
                      game     |-> last.game,
                      features |-> Features(last.game),
                      homeAdvantage |-> HomeAdvantage(Features(last.game)),
                      record   |-> GeneratePredictionRecord(last.game, weights,
                                                   CHOOSE d \in Draws : TRUE, now) ]
    /\ UNCHANGED <<games, preds, accuracy, logs, weights, now, runs, prev, hist>>

NextEngine == GeneratePrediction

SpecEngine == InitEngine /\ [][NextEngine]_vars

----------------------------------------------------------------------------
(* The records generatePrediction returns *)

Predicted == last.op = "prediction"

IsFallback(record) == record.ai_model = "Fallback Statistical Model"

(* C11: when every adapter fetch of the matchup fails (the store is
   unreachable), the record generatePrediction returns is tagged as a
   fallback: its ai_model and model_version are not those of an ensemble
   prediction. *)
UnreachableStoreTaggedFallback ==
    (Predicted /\ last.game.failed = Fetches) =>
        /\ last.record.ai_model # "Advanced Ensemble v2.0"
        /\ last.record.model_version # "2.0.0"

\* The fields of a well-formed Prediction Record
RecordFields ==
    { "predicted_winner_team_id", "confidence_score",
      "predicted_home_score", "predicted_away_score", "predicted_spread",
      "predicted_total_score",
      "player_stats_confidence", "injury_impact_confidence",
      "travel_fatigue_confidence", "form_momentum_confidence",
      "head_to_head_confidence", "weather_impact_confidence",
      "home_advantage_confidence", "rest_differential_confidence",
      "top_factor_1", "top_factor_2", "top_factor_3",
      "upset_probability", "ai_model", "model_version", "created_at" }

(* C13: every record generatePrediction returns, ensemble or fallback, carries
   a predicted winner, confidence, predicted home and away scores, spread,
   total, the per-factor confidences, three top factors, upset probability, a
   model tag and a creation timestamp. *)
RecordWellFormed ==
    Predicted => RecordFields \subseteq DOMAIN last.record

(* C14: every record returned has confidence_score in 60..95, a fallback
   record in 65..85, and every ensemble record has upset_probability in
   0..45. *)
ConfidenceAndUpsetInRange ==
    Predicted =>
        /\ last.record.confidence_score \in 60..95
        /\ IsFallback(last.record) => last.record.confidence_score \in 65..85
        /\ ~IsFallback(last.record) => last.record.upset_probability \in 0..45

\* An ensemble record whose confidence was raised to 60 and whose upset
\* probability was cut to 45
ConfidenceRaisedUpsetCut ==
    /\ Predicted
    /\ last.path = "ensemble"
    /\ last.homeAdvantage = 53500
    /\ last.record.confidence_score = 60
    /\ last.record.upset_probability = 45

\* The sub-scores calculateWeightedPrediction reads that the data bounds
BoundedSubScores ==
    { "home_team_form", "away_team_form", "home_fatigue", "away_fatigue",
      "home_injury_impact", "away_injury_impact",
      "home_player_advantage", "away_player_advantage", "h2h_advantage" }

(* C15: for every data set, each of the form, fatigue, injury impact, player
   advantage and head-to-head scores passed to calculateWeightedPrediction
   lies in 0..10 and the differential after combination in 0..100. *)
SubScoresAndDifferentialInRange ==
    (Predicted /\ last.path = "ensemble") =>
        /\ \A k \in BoundedSubScores : last.features[k] \in 0..Hundredths(10)
        /\ last.homeAdvantage \in 0..(1000 * 100)

\* Two teams without a game or a past meeting, the home players far better:
\* the sum passes 100 and is cut
DifferentialCutWithoutGames ==
    /\ Predicted
    /\ last.path = "ensemble"
    /\ last.game.home.form = NoGames
    /\ last.game.away.form = NoGames
    /\ last.game.meetings.total_games = 0
    /\ last.game.failed = {}
    /\ last.features.home_player_advantage = 1000
    /\ last.features.away_player_advantage = 100
    /\ last.homeAdvantage = 100000

\* The games of Scenario A: X against Y, either at home, nothing else on record
ScenarioA(game) ==
    /\ game \in FormGames
    /\ \E x \in 2..5, y \in 0..4 :
          \/ game.home.form = TeamX(x) /\ game.away.form = TeamY(y)
          \/ game.home.form = TeamY(y) /\ game.away.form = TeamX(x)

TeamIdOfX(game) ==
    IF game.home.form.wins = 7 THEN game.homeTeamId ELSE game.awayTeamId

(* C18: in Scenario A the predicted winner is Team X with confidence of at
   least 60, whichever team is at home and however the wins are spread over
   the last 5 games. *)
ScenarioAPredictsX ==
    (Predicted /\ ScenarioA(last.game)) =>
        /\ last.record.predicted_winner_team_id = TeamIdOfX(last.game)
        /\ last.record.confidence_score >= 60

\* The games of Scenario B: no game, meeting, player or injury on record, and
\* a venue without a score of its own
ScenarioB(game) ==
    /\ IsNull(game.venue)
    /\ game.home = TeamOf(NoGames)
    /\ game.away = TeamOf(NoGames)
    /\ game.meetings.total_games = 0
    /\ game.failed = {}
    /\ game.sport # NotAString

(* C19: in Scenario B the differential departs from 50 only by the home-court
   term (the neutral head-to-head score of 5.0 adds nothing), the predicted
   winner is the home team and confidence is in 60..65. *)
ScenarioBOnlyHomeCourt ==
    (Predicted /\ ScenarioB(last.game)) =>
        /\ last.homeAdvantage = 50000 + last.features.home_court_advantage * 16
        /\ last.record.predicted_winner_team_id = last.game.homeTeamId
        /\ last.record.confidence_score \in 60..65

----------------------------------------------------------------------------
(* Engine records in the store: the handler, the validator and the tuner *)

MaxFallbacks == 1    \* requests answered by the fallback path

\* The features column as the tuner reads it back: for each tuned factor,
\* whether the keys it tests are there and whether the impact it adds is zero
FeatureSnapshot(features) ==
    LET impact ==
          [ team_form         |-> features.home_team_form - features.away_team_form,
            player_stats      |-> features.home_player_advantage
                                  - features.away_player_advantage,
            injuries          |-> features.home_injury_impact
                                  - features.away_injury_impact,
            travel_fatigue    |-> features.home_fatigue - features.away_fatigue,
            head_to_head      |-> features.h2h_advantage - 500,
            home_advantage    |-> features.home_court_advantage,
            rest_differential |-> features.rest_advantage ]
    IN  [f \in Factors |-> IF impact[f] = 0 THEN "zero" ELSE "nonzero"]

\* The fields of the record the INSERT of handleAdvancedPredictions binds
InsertColumns ==
    RecordFields \cup
        { "game_id", "predicted_winner_name", "top_factor_1_impact",
          "top_factor_2_impact", "top_factor_3_impact", "variance_score",
          "algorithm", "features_used", "features" }

\* A field of the record as bound: one the record lacks is undefined, stored
\* as NULL by a driver that accepts it
Column(rec, f) == IF f \in DOMAIN rec THEN rec[f] ELSE NULL

\* What the handler binds of an engine record.  features is
\* JSON.stringify(prediction.features), undefined for a record without
\* features; the spread is kept in whole points, the unit of the final scores.
HandlerView(in, rec) ==
    [ winner               |-> IF rec.predicted_winner_team_id = in.homeTeamId
                               THEN "home" ELSE "away",
      confidence_score     |-> rec.confidence_score,
      predicted_home_score |-> Column(rec, "predicted_home_score"),
      predicted_away_score |-> Column(rec, "predicted_away_score"),
      predicted_spread     |-> Val(Round(rec.predicted_spread, 10)),
      top_factor_1         |-> Column(rec, "top_factor_1"),
      features             |-> IF "features" \in DOMAIN rec
                               THEN Val(FeatureSnapshot(rec.features)) ELSE NULL,
      ai_model             |-> rec.ai_model ]

\* The requests of this specification: Team X at home to Team Y, the sport a
\* string (ensemble path) or not (fallback path)
StoreGame(sport) ==
    EngineGame(TeamOf(TeamX(3)), TeamOf(TeamY(2)),
               [total_games |-> 0, team1_wins |-> 0], NULL, sport, {})

\* The two draws at their ends
StoreDraws == {d \in Draws : d.confidence \in {0, 19} /\ d.spread \in {0, 999}}

\* handleAdvancedPredictions for one game, the engine's record stored as the
\* handler binds it.  Binding undefined for a field the record lacks throws in
\* the driver, and the handler goes on without a row, unless the driver is
\* lenient and stores NULL.
PredictAndStore(maxPreds, in, draw, lenient) ==
    LET rec == GeneratePredictionRecord(in, weights, draw, now)
    IN  IF InsertColumns \subseteq DOMAIN rec \/ lenient
        THEN HandleAdvancedPredictions(maxPreds, in.id, in.homeTeamId,
                                       in.awayTeamId, HandlerView(in, rec))
        ELSE /\ Len(preds) < maxPreds
             /\ UNCHANGED <<games, preds, accuracy, logs, weights, now, runs, hist>>

StoredFallbacks == {i \in DOMAIN preds : IsFallback(preds[i])}

\* The store after n requests on the ensemble path for game 1 and the end of
\* that game
InitStore ==
    \E n \in {MinimumRequired - 1, MinimumRequired} :
        LET in  == StoreGame("nba")
            rec == GeneratePredictionRecord(in, EngineWeights,
                                            CHOOSE d \in StoreDraws : TRUE, 0)
            row == PredictionRow([id |-> in.id, homeTeamId |-> in.homeTeamId,
                                  awayTeamId |-> in.awayTeamId],
                                 HandlerView(in, rec), 0)
        IN  /\ games = TuneGames
            /\ preds = [i \in 1..n |-> row]
            /\ accuracy = << >>
            /\ logs = << >>
            /\ weights = EngineWeights
            /\ now = 0
            /\ runs = [r \in Runners |-> Idle]
            /\ last = NoOp
            /\ prev = NoOp
            /\ hist = NoHist

NextStore ==
    \/ \E draw \in StoreDraws, lenient \in BOOLEAN :
          /\ Cardinality(StoredFallbacks) < MaxFallbacks
          /\ PredictAndStore(MinimumRequired + MaxFallbacks + 1,
                             StoreGame(NotAString), draw, lenient)
          /\ Record([op |-> "predict"])
    \/ /\ Len(preds) - Cardinality(StoredFallbacks) < MinimumRequired + 1
       /\ PredictAndStore(MinimumRequired + MaxFallbacks + 1, StoreGame("nba"),
                          CHOOSE d \in StoreDraws : TRUE, FALSE)
       /\ Record([op |-> "predict"])
    \/ RunPredictionValidation(MinimumRequired + MaxFallbacks + 1, MaxTuneLogs)
    \/ RunWeightTuning(MaxTuneLogs) /\ Record(TuningEntry)

SpecStore == InitStore /\ [][NextStore]_vars

(* C12: whatever predictions, validations and tuning runs have happened, no
   row the tuner selects for its factor accuracy is a fallback prediction:
   each was produced by the ensemble path. *)
FallbackNeverTuned ==
    \A i \in TuningRows(preds, accuracy, now) :
        /\ ~IsFallback(preds[accuracy[i].prediction_id])
        /\ preds[accuracy[i].prediction_id].ai_model = "Advanced Ensemble v2.0"

\* The tuner has analysed 20 rows while a validated fallback was in the store
TunedBesideValidatedFallback ==
    /\ Tuned
    /\ \E i \in StoredFallbacks :
          /\ Annotated(preds[i])
          /\ \E k \in DOMAIN accuracy : accuracy[k].prediction_id = i

----------------------------------------------------------------------------
(* The margin of error the validator writes *)

\* Predicted spreads and final scores, in points; Scenario C is a spread of 7
\* and a final score of 110 to 101
MarginSpreads == {Val(7), Val(0), Val(-3), Val(12)}
MarginScores == { <<Val(110), Val(101)>>, <<Val(101), Val(110)>>,
                  <<Val(98), Val(98)>>, <<Val(120), Val(100)>> }

MarginOutputs ==
    { [EngineOutput(side, FullSnapshot) EXCEPT !.predicted_spread = s] :
        side \in {"home", "away"}, s \in MarginSpreads }

NextMargin ==
    \/ \E out \in MarginOutputs :
          HandleAdvancedPredictions(MaxSeqPreds, 1, Val("H"), Val("A"), out)
              /\ Record([op |-> "predict"])
    \/ \E st \in TerminalStatuses, sc \in MarginScores :
          GameFinal(1, st, sc) /\ Record([op |-> "game"])
    \/ RunPredictionValidation(MaxSeqRows, MaxSeqLogs)

SpecMargin == Init /\ [][NextMargin]_vars

(* C21: for every validated prediction the validator writes
   margin_of_error = |(home_score - away_score) - predicted_spread|; for a
   predicted spread of 7 and a final score of 110 to 101 it writes 2. *)
MarginIsAbsoluteSpreadError ==
    \A i \in DOMAIN preds :
        Annotated(preds[i]) =>
            LET p == preds[i]
                g == games[p.game_id]
            IN  /\ p.margin_of_error =
                       Val(Abs((Get(g.home_score) - Get(g.away_score))
                               - Get(p.predicted_spread)))
                /\ (p.predicted_spread = Val(7)
                      /\ g.home_score = Val(110) /\ g.away_score = Val(101))
                   => p.margin_of_error = Val(2)

\* Scenario C validated
ScenarioCValidated ==
    \E i \in DOMAIN preds :
        /\ Annotated(preds[i])
        /\ preds[i].predicted_spread = Val(7)
        /\ games[preds[i].game_id].home_score = Val(110)
        /\ games[preds[i].game_id].away_score = Val(101)
        /\ preds[i].margin_of_error = Val(2)
        /\ \E k \in DOMAIN accuracy :
              accuracy[k].prediction_id = i /\ accuracy[k].margin_of_error = 2

----------------------------------------------------------------------------
(* The scheduled trigger *)

Hours == 0..23       \* now.getUTCHours()
Days == 0..6         \* now.getUTCDay(), 0 = Sunday

\* A tuner run in every trigger of a Sunday
TunerDueAllSunday(hour, day) == day = 0

\* if (hour % 12 === 0), if (day === 0 && hour === 0), if (hour === 6 || hour === 18)
InjuryDue(hour) == hour % 12 = 0
TunerDue(hour, day) == day = 0 /\ hour = 0
NewsDue(hour) == hour = 6 \/ hour = 18

\* The statement a trigger goes to after the task at pc
AfterTask(pc, hour, day) ==
    IF pc = "validator" /\ InjuryDue(hour) THEN "injury"
    ELSE IF pc \in {"validator", "injury"} /\ TunerDue(hour, day) THEN "tuner"
    ELSE IF pc \in {"validator", "injury", "tuner"} /\ NewsDue(hour) THEN "news"
    ELSE "done"

NoTrigger(entry) == IF entry.op = "trigger" THEN entry.pc = "done" ELSE TRUE

\* scheduled(event, env, ctx) is entered: hour and day are read from the clock
StartTrigger(maxLogs) ==
    /\ NoTrigger(last)
    /\ Len(logs) < maxLogs
    /\ \E hour \in Hours, day \in Days :
          last' = [ op |-> "trigger", hour |-> hour, day |-> day,
                    pc |-> "validator", tasks_run |-> << >>,
                    analyzed |-> 0, error |-> FALSE ]
    /\ UNCHANGED <<games, preds, accuracy, logs, weights, now, runs, prev, hist>>

TaskDone(task) ==
    [last EXCEPT !.pc = AfterTask(last.pc, last.hour, last.day),
                 !.tasks_run = Append(@, task)]

\* await runPredictionValidation(env): the run of the validator, start to
\* return (ok), or its outer catch (the selection threw, nothing was written
\* but an error log); either way the task is pushed
ValidatorTask(ok) ==
    LET rows  == SelectPredictions(preds, games, now)
        after == ValidateAll(rows, preds, accuracy, now)
    IN  /\ last.op = "trigger" /\ last.pc = "validator"
        /\ preds' = IF ok THEN after.preds ELSE preds
        /\ accuracy' = IF ok THEN after.accuracy ELSE accuracy
        /\ logs' = InsertLog(logs, IF ok THEN "prediction_validation"
                                         ELSE "prediction_validation_error", now)
        /\ last' = TaskDone("prediction_validator")
        /\ UNCHANGED <<games, weights, now, runs, prev, hist>>

\* await runInjuryCollection(env) and await runNewsGeneration(env): tasks of
\* other modules; when one throws, the catch of scheduled ends the trigger
OtherTask(pc, task, ok) ==
    /\ last.op = "trigger" /\ last.pc = pc
    /\ last' = IF ok THEN TaskDone(task)
               ELSE [last EXCEPT !.pc = "done", !.error = TRUE]
    /\ UNCHANGED <<games, preds, accuracy, logs, weights, now, runs, prev, hist>>

InjuryTask(ok) == OtherTask("injury", "injury_collector", ok)
NewsTask(ok) == OtherTask("news", "news_generator", ok)

\* await runWeightTuning(env)
TunerTask ==
    /\ last.op = "trigger" /\ last.pc = "tuner"
    /\ RunWeightTuning(MaxTuneLogs + 2)
    /\ last' = [TaskDone("weight_tuner") EXCEPT
                    !.analyzed = TuningResult(preds, accuracy, now).predictions_analyzed]
    /\ prev' = prev

NextSched ==
    \/ StartTrigger(MaxTuneLogs)
    \/ \E ok \in BOOLEAN : ValidatorTask(ok)
    \/ \E ok \in BOOLEAN : InjuryTask(ok)
    \/ TunerTask
    \/ \E ok \in BOOLEAN : NewsTask(ok)

SpecSched == InitStore /\ [][NextSched]_vars

\* The position of a task in tasks_run, 0 when it has not run
TaskIndex(tasks, task) ==
    IF \E i \in DOMAIN tasks : tasks[i] = task
    THEN CHOOSE i \in DOMAIN tasks : tasks[i] = task
    ELSE 0

(* C23: in every scheduled trigger the validator runs, first; the weight tuner
   runs only in the trigger of Sunday, hour 0 UTC, and only after that
   trigger's validator run has returned. *)
TunerFollowsValidator ==
    last.op = "trigger" =>
        /\ last.pc # "validator" =>
              TaskIndex(last.tasks_run, "prediction_validator") = 1
        /\ last.pc = "tuner" \/ TaskIndex(last.tasks_run, "weight_tuner") > 0 =>
              /\ last.day = 0 /\ last.hour = 0
              /\ TaskIndex(last.tasks_run, "prediction_validator") = 1

\* A Sunday midnight trigger that validated and then tuned 20 predictions
SundayTriggerTuned ==
    /\ last.op = "trigger"
    /\ last.pc = "done"
    /\ last.tasks_run = <<"prediction_validator", "injury_collector", "weight_tuner">>
    /\ last.analyzed >= MinimumRequired

----------------------------------------------------------------------------
(* The statistics a validator run reports *)

AnnotatedIds == {i \in DOMAIN preds : Annotated(preds[i])}

(* C24: the total, correct and accuracy a validator run reports equal those
   recomputed from the predictions carrying an outcome annotation, each
   counted once: every annotated prediction has exactly one
   prediction_accuracy row and every row belongs to an annotated prediction. *)
StatsMatchAnnotatedPredictions ==
    last.op = "validate" =>
        LET ok == {i \in AnnotatedIds : preds[i].was_correct = Val(1)}
        IN  /\ last.seven_day_stats.total = Cardinality(AnnotatedIds)
            /\ last.seven_day_stats.correct = Cardinality(ok)
            /\ last.seven_day_stats.accuracy_pct =
                   IF Cardinality(AnnotatedIds) > 0
                   THEN Percent2(Cardinality(ok), Cardinality(AnnotatedIds))
                   ELSE 0
            /\ \A i \in AnnotatedIds :
                   Cardinality({k \in DOMAIN accuracy :
                                    accuracy[k].prediction_id = i}) = 1
            /\ \A k \in DOMAIN accuracy :
                   accuracy[k].prediction_id \in AnnotatedIds

\* A game closed without a score
MalformedScore(g) ==
    g.status \in TerminalStatuses /\ (IsNull(g.home_score) \/ IsNull(g.away_score))

(* C25: a prediction whose game is in a terminal status with missing score
   data is skipped by the validator: it is not annotated, has no
   prediction_accuracy row and is counted neither as correct nor as
   incorrect. *)
MalformedScoreSkipped ==
    /\ \A i \in DOMAIN preds :
          MalformedScore(games[preds[i].game_id]) =>
              /\ ~Annotated(preds[i])
              /\ \A k \in DOMAIN accuracy : accuracy[k].prediction_id # i
    /\ (last.op = "validate"
          /\ \A i \in DOMAIN preds : MalformedScore(games[preds[i].game_id])) =>
              last.correct = 0 /\ last.incorrect = 0

----------------------------------------------------------------------------
(* What the tuner counts for a factor *)

\* The rows in which factor f was decisive: its home and away values differ
DecisiveRows(P, A, rows, f) ==
    {i \in rows : RowFeatures(P, A, i)[f] = "nonzero"}

\* The accuracy of each factor over the rows in which it was decisive
DecisiveAccuracy(P, A, rows) ==
    [f \in {g \in Factors : DecisiveRows(P, A, rows, g) # {}} |->
        Percent2(Cardinality({i \in DecisiveRows(P, A, rows, f) :
                                 A[i].prediction_correct = 1}),
                 Cardinality(DecisiveRows(P, A, rows, f)))]

(* C26: in runWeightTuning a validated prediction counts toward a factor's
   accuracy only if the factor showed a non-trivial home/away differential in
   its feature snapshot; a prediction with equal home and away values for the
   factor is not counted for it. *)
OnlyDecisiveFactorsCounted ==
    Tuned =>
        LET rows == TuningRows(preds, accuracy, now)
        IN  /\ last.result.factor_accuracy = DecisiveAccuracy(preds, accuracy, rows)
            /\ \A f \in DOMAIN last.result.factor_accuracy :
                  DecisiveRows(preds, accuracy, rows, f) # {}

----------------------------------------------------------------------------
(* The direction in which the tuner moves a weight *)

\* The clamp of line 332 changed the adjusted weight of a factor
ClampApplies(cur, acc, total) ==
    \/ 7 * cur * total + 300 * acc < 20 * total
    \/ 7 * cur * total + 300 * acc > 300 * total

\* w thousandths lies between the current weight (cur hundredths) and the
\* ideal share acc / total, up to the last digit toFixed(3) prints
BetweenCurrentAndIdeal(w, cur, acc, total) ==
    /\ w * total >= Min(10 * cur * total, 1000 * acc) - total
    /\ w * total <= Max(10 * cur * total, 1000 * acc) + total

(* C27: each returned optimized weight lies between the factor's current
   weight and its ideal share (its accuracy over the sum of the accuracies):
   never moved away from the ideal and never past it, except where the
   [0.02, 0.30] clamp applies. *)
WeightsMoveTowardIdeal ==
    Tuned =>
        LET acc   == last.result.factor_accuracy
            total == SumOver(acc, DOMAIN acc)
        IN  \A f \in DOMAIN last.result.optimized_weights :
                \/ last.result.optimized_weights[f].nan
                \/ ClampApplies(CurrentWeights[f], acc[f], total)
                \/ BetweenCurrentAndIdeal(last.result.optimized_weights[f].milli,
                                          CurrentWeights[f], acc[f], total)

----------------------------------------------------------------------------
(* The winner and the predicted scores of an ensemble prediction *)

HomePredicted(record) == record.predicted_winner_team_id = Val("H")

(* C28: in every ensemble prediction the home team is the predicted winner
   exactly when predicted_home_score exceeds predicted_away_score, and
   exactly when predicted_spread is positive. *)
WinnerAgreesWithScores ==
    (Predicted /\ last.path = "ensemble") =>
        /\ HomePredicted(last.record)
              <=> last.record.predicted_home_score > last.record.predicted_away_score
        /\ HomePredicted(last.record) <=> last.record.predicted_spread > 0

----------------------------------------------------------------------------
(* Sub-scores of 0 on their way into the combination *)

\* The form score the adapter computed for a side, when its fetch succeeded
ComputedForm(in, side) == CalculateTeamForm(in[side].form).form_score

\* The rest differential of the days of rest the adapter computed
ComputedRestAdvantage(in) ==
    Hundredths(Clamp(CalculateTravelFatigue(in.home.schedule).days_rest
                     - CalculateTravelFatigue(in.away.schedule).days_rest, -5, 5))

(* C29: a computed sub-score of 0 reaches the combination unchanged: a
   form_score of 0 enters as 0 and a days_rest of 0 enters the rest
   differential as 0; the neutral defaults (5.0, 7 days) are used only when
   the input is unavailable. *)
ComputedZeroKept ==
    (Predicted /\ last.path = "ensemble") =>
        /\ "home_form" \notin last.game.failed
              => last.features.home_team_form = ComputedForm(last.game, "home")
        /\ "away_form" \notin last.game.failed
              => last.features.away_team_form = ComputedForm(last.game, "away")
        /\ "travel_fatigue" \notin last.game.failed
              => last.features.rest_advantage = ComputedRestAdvantage(last.game)

----------------------------------------------------------------------------
(* Two stores that differ only in which predictions were correct *)

\* The rows the last tuning run analysed all carry the seven factors
CompleteSnapshots ==
    \A i \in TuningRows(preds, accuracy, now) :
        RowFeatures(preds, accuracy, i) = FullSnapshot

CorrectRows(A, rows) == {i \in rows : A[i].prediction_correct = 1}

\* prediction_accuracy of a store with the same predictions of which the
\* first k validated rows, and no other, were correct
AccuracyWithCorrect(A, k) ==
    [i \in DOMAIN A |->
        [A[i] EXCEPT !.prediction_correct = IF i <= k THEN 1 ELSE 0]]

(* C30: of two stores holding the same 20 or more validated predictions with
   complete snapshots and differing only in which of them were correct, each
   with at least one correct, runWeightTuning reports within each store the
   same accuracy for every factor, and identical optimized_weights for both. *)
SameWeightsWhateverWasCorrect ==
    (/\ Tuned
     /\ CompleteSnapshots
     /\ CorrectRows(accuracy, TuningRows(preds, accuracy, now)) # {}) =>
        /\ DOMAIN last.result.factor_accuracy = Factors
        /\ \A f, g \in Factors :
              last.result.factor_accuracy[f] = last.result.factor_accuracy[g]
        /\ \A k \in 1..Len(accuracy) :
              LET other == TuningResult(preds, AccuracyWithCorrect(accuracy, k), now)
              IN  /\ \A f, g \in Factors :
                        other.factor_accuracy[f] = other.factor_accuracy[g]
                  /\ other.optimized_weights = last.result.optimized_weights

\* A tuning run over complete snapshots of which some, not all, were correct
TunedOverCompleteSnapshots ==
    /\ Tuned
    /\ CompleteSnapshots
    /\ CorrectRows(accuracy, TuningRows(preds, accuracy, now)) # {}
    /\ CorrectRows(accuracy, TuningRows(preds, accuracy, now))
           # TuningRows(preds, accuracy, now)
    /\ \A f \in Factors : ~last.result.optimized_weights[f].nan
    /\ last.result.optimized_weights["team_form"] = Weight(159)

----------------------------------------------------------------------------
(* Repeated scheduled runs of the validator while the days pass *)

\* Days the clock runs, predictions stored and system_logs rows kept
MaxDays == 8
MaxLivePreds == 2
MaxLiveLogs == 1

\* Scores of a finished game, both known
LiveScores == { <<Val(2), Val(1)>>, <<Val(1), Val(2)>> }

\* A prediction of either side for game 1, both teams known, stored today
StorePrediction ==
    /\ \E side \in {"home", "away"} :
          HandleAdvancedPredictions(MaxLivePreds, 1, Val("H"), Val("A"),
                                    EngineOutput(side, FullSnapshot))
    /\ last' = [op |-> "predict"]
    /\ UNCHANGED prev

\* The ingestion closes game 1 with its scores
GameEnds ==
    /\ \E st \in TerminalStatuses, sc \in LiveScores : GameFinal(1, st, sc)
    /\ last' = [op |-> "game"]
    /\ UNCHANGED prev

\* runPredictionValidation called by the trigger.  Of system_logs only the
\* first MaxLiveLogs rows are kept: no statement of the validator reads them.
ScheduledValidation ==
    /\ \E rows \in {SelectPredictions(preds, games, now)} :
          \E after \in {ValidateAll(rows, preds, accuracy, now)} :
              /\ preds' = after.preds
              /\ accuracy' = after.accuracy
              /\ last' = [ op        |-> "validate",
                           success   |-> TRUE,
                           validated |-> Len(rows) ]
    /\ logs' = IF Len(logs) < MaxLiveLogs
               THEN InsertLog(logs, "prediction_validation", now)
               ELSE logs
    /\ UNCHANGED <<games, weights, now, runs, prev, hist>>

\* A day ends.  The trigger fires several times a day, so the last event of
\* a day is a run of the validator.  The days are counted up to MaxDays: later
\* days pass without being counted, so that what is inside the seven-day
\* window on day MaxDays stays inside it.
DayPasses ==
    /\ last.op = "validate"
    /\ now' = IF now < MaxDays THEN now + 1 ELSE now
    /\ last' = [op |-> "day"]
    /\ UNCHANGED <<games, preds, accuracy, logs, weights, runs, prev, hist>>

NextLive ==
    \/ StorePrediction
    \/ GameEnds
    \/ ScheduledValidation
    \/ DayPasses

SpecLive == Init /\ [][NextLive]_vars /\ WF_vars(ScheduledValidation)

\* Prediction i is stored and its game has reached a terminal status
AwaitsOutcome(i) ==
    /\ i \in DOMAIN preds
    /\ games[preds[i].game_id].status \in TerminalStatuses

(* C22: under repeated runs of the validator (weak fairness on the scheduled
   trigger) every stored prediction whose game reaches a terminal status is
   eventually annotated, however long before the game's completion it was
   created and however many others are pending. *)
EveryFinishedPredictionAnnotated ==
    \A i \in 1..MaxLivePreds :
        AwaitsOutcome(i) ~> (i \in DOMAIN preds /\ Annotated(preds[i]))

====
